---- MODULE Spec2Model ----
(***************************************************************************)
(* Runtime object model of the Monkey interpreter (package object) and the *)
(* read loop (package repl).                                               *)
(*                                                                         *)
(*   Spec            the Hash container with Integer, Boolean, String keys *)
(*   UnhashableSpec  the Hash container and keys without a HashKey method  *)
(*   KeySpec         objects and their cached hash keys                    *)
(*   EnvSpec         the chained-scope Environment                         *)
(*   ReplSpec        repl.Start, one session after another                 *)
(*                                                                         *)
(* A uint64 is a tuple of eight bytes, least significant first, because    *)
(* the digests do not fit the integers of the model checker.               *)
(***************************************************************************)
EXTENDS Integers, Sequences, FiniteSets, TLC

VARIABLES objs, Pairs, assigned, envs, pc, env, input, program, errors, out, evals,
          sessions, ret

\* objs      the objects created so far; a reference is an index
\* Pairs     the Pairs map of the one Hash: HashKey -> chain of pairs
\* assigned  history: for every key added, the value of its latest Add
\* envs      the environments created so far
\* pc, env, input, program, errors, out, evals, sessions: repl.Start
\* ret       the last call and what it returned
vars ==
    <<objs, Pairs, assigned, envs, pc, env, input, program, errors, out, evals, sessions, ret>>

(***************************************************************************)
(* Bounds of the model.                                                    *)
(***************************************************************************)
\* objects on the heap, TRUE and FALSE included
MaxObjs == 4
\* environments alive in EnvSpec
MaxEnvs == 3
\* lines the reader of one session holds
MaxInputs == 3
\* calls of Start
MaxSessions == 2

(***************************************************************************)
(* Object types.                                                           *)
(***************************************************************************)
INTEGER_OBJ == "INTEGER"
BOOLEAN_OBJ == "BOOLEAN"
NULL_OBJ == "NULL"
RETURN_VALUE_OBJ == "RETURN_VALUE"
ERROR_OBJ == "ERROR"
FUNCTION_OBJ == "FUNCTION"
STRING_OBJ == "STRING"
BUILTIN_OBJ == "BUILTIN"
ARRAY_OBJ == "ARRAY"
HASH_OBJ == "HASH"

\* The variants with a HashKey method.
Hashable == {INTEGER_OBJ, BOOLEAN_OBJ, STRING_OBJ}

\* The variants without one.
NonHashable ==
    {NULL_OBJ, RETURN_VALUE_OBJ, ERROR_OBJ, FUNCTION_OBJ, BUILTIN_OBJ, ARRAY_OBJ, HASH_OBJ}

(***************************************************************************)
(* uint64 arithmetic on eight bytes, least significant first.              *)
(***************************************************************************)
RECURSIVE BytesOfNat(_, _)
BytesOfNat(n, k) ==
    IF k = 0 THEN <<>> ELSE <<n % 256>> \o BytesOfNat(n \div 256, k - 1)

\* uint64(v) of an int64 v: two's complement, -v-1 being the complement of v.
U64OfInt(v) ==
    IF v >= 0
    THEN BytesOfNat(v, 8)
    ELSE [i \in 1..8 |-> 255 - BytesOfNat(-v - 1, 8)[i]]

RECURSIVE XorBits(_, _, _)
XorBits(a, b, n) ==
    IF n = 0
    THEN 0
    ELSE (((a % 2) + (b % 2)) % 2) + 2 * XorBits(a \div 2, b \div 2, n - 1)

\* h ^= uint64(c) for a byte c
XorByte(h, c) == [h EXCEPT ![1] = XorBits(h[1], c, 8)]

RECURSIVE MulColumn(_, _, _, _)
MulColumn(a, b, k, i) ==
    IF i > k THEN 0 ELSE a[i] * b[k + 1 - i] + MulColumn(a, b, k, i + 1)

RECURSIVE MulFrom(_, _, _, _)
MulFrom(a, b, k, carry) ==
    IF k > 8
    THEN <<>>
    ELSE LET t == MulColumn(a, b, k, 1) + carry
         IN  <<(t % 256)>> \o MulFrom(a, b, k + 1, t \div 256)

\* a * b modulo 2^64
MulU64(a, b) == MulFrom(a, b, 1, 0)

\* hash/fnv: offset64 = 14695981039346656037 = 0xcbf29ce484222325
FnvOffset64 == <<37, 35, 34, 132, 228, 156, 242, 203>>
\* hash/fnv: prime64 = 1099511628211 = 0x100000001b3
FnvPrime64 == <<179, 1, 0, 0, 0, 1, 0, 0>>

\* fnv.New64a(); Write(bytes); Sum64(): per byte, xor then multiply.
RECURSIVE Fnv64aFrom(_, _, _)
Fnv64aFrom(h, bytes, i) ==
    IF i > Len(bytes)
    THEN h
    ELSE Fnv64aFrom(MulU64(XorByte(h, bytes[i]), FnvPrime64), bytes, i + 1)

Fnv64aSum(bytes) == Fnv64aFrom(FnvOffset64, bytes, 1)

(***************************************************************************)
(* Objects.  The heap objs is the sequence of the objects created so far;  *)
(* a reference is an index into it.  An object is [Type, Value, hashKey],  *)
(* hashKey being the private cache of Integer, Boolean and String.         *)
(***************************************************************************)
\* a nil *HashKey
NoHashKey == [Type |-> "", Value |-> <<>>]

\* a nil error
NoError == "<nil>"

\* the zero HashPair
NoPair == [Key |-> 0, Value |-> 0]

\* var TRUE = &Boolean{Value: true, hashKey: nil}
TrueRef == 1
\* var FALSE = &Boolean{Value: false, hashKey: nil}
FalseRef == 2

\* Two strings with the same 64-bit FNV-1a digest, 0xe1bab1ae8aa340d9:
\* "gtwwh4kol12mo" and "lvnw24r0kksaa", as their bytes.
CollideA == <<103, 116, 119, 119, 104, 52, 107, 111, 108, 49, 50, 109, 111>>
CollideB == <<108, 118, 110, 119, 50, 52, 114, 48, 107, 107, 115, 97, 97>>

\* No program parsed yet.
NoProgram == [kind |-> "none", name |-> "", val |-> 0]

\* The values NewInteger and NewString are called with.
IntValues == {1, -1}
\* The integers used as keys of the Hash.
KeyIntValues == {1}
StrValues == {CollideA, CollideB}

\* The digests of the strings of the model, each computed once.
Fnv64aTable == [bytes \in StrValues |-> Fnv64aSum(bytes)]

Fnv64a(bytes) == Fnv64aTable[bytes]

\* The objects Add is given as values.
ValueRefs == {TrueRef, FalseRef}

MkObject(type, value) == [Type |-> type, Value |-> value, hashKey |-> NoHashKey]

Refs == 1..Len(objs)

\* (*Integer).HashKey: the value it returns
IntegerHashKey(o) ==
    IF o.hashKey # NoHashKey
    THEN o.hashKey
    ELSE [Type |-> INTEGER_OBJ, Value |-> U64OfInt(o.Value)]

\* A Boolean hash key that carries the type of Integer.
BooleanHashKeyAsInteger(o) ==
    IF o.hashKey # NoHashKey
    THEN o.hashKey
    ELSE [Type |-> INTEGER_OBJ, Value |-> BytesOfNat(IF o.Value THEN 1 ELSE 0, 8)]

\* (*Boolean).HashKey: the value it returns
BooleanHashKey(o) ==
    IF o.hashKey # NoHashKey
    THEN o.hashKey
    ELSE [Type |-> BOOLEAN_OBJ, Value |-> BytesOfNat(IF o.Value THEN 1 ELSE 0, 8)]

\* (*String).HashKey: the value it returns
StringHashKey(o) ==
    IF o.hashKey # NoHashKey
    THEN o.hashKey
    ELSE [Type |-> STRING_OBJ, Value |-> Fnv64a(o.Value)]

\* key.HashKey() through the Hashable interface
HashKeyOf(o) ==
    CASE o.Type = INTEGER_OBJ -> IntegerHashKey(o)
      [] o.Type = BOOLEAN_OBJ -> BooleanHashKey(o)
      [] o.Type = STRING_OBJ -> StringHashKey(o)

\* The object after a call of its HashKey method: the result is cached.
Cached(o) == [o EXCEPT !.hashKey = HashKeyOf(o)]

\* A comparison of the hash keys instead of the values.
compareObjectsByHashKey(a, b) ==
    /\ a.Type \in Hashable
    /\ b.Type \in Hashable
    /\ HashKeyOf(a) = HashKeyOf(b)

compareObjects(a, b) ==
    IF a.Type # b.Type
    THEN FALSE
    ELSE CASE a.Type = STRING_OBJ -> a.Value = b.Value
           [] a.Type = INTEGER_OBJ -> a.Value = b.Value
           [] a.Type = BOOLEAN_OBJ -> a.Value = b.Value
           [] OTHER -> FALSE

\* The positions of chain whose key is object-equal to key.
Matches(heap, chain, key) ==
    {i \in 1..Len(chain) : compareObjects(heap[chain[i].Key], heap[key])}

Lowest(S) == CHOOSE i \in S : \A j \in S : i <= j

\* A FindPair that takes the head of the chain without comparing keys.
FindPairHead(heap, chain, key) ==
    IF Len(chain) > 0
    THEN [pair |-> chain[1], ok |-> TRUE]
    ELSE [pair |-> NoPair, ok |-> FALSE]

\* HashChain.FindPair: the first pair with an object-equal key
FindPair(heap, chain, key) ==
    IF Matches(heap, chain, key) # {}
    THEN [pair |-> chain[Lowest(Matches(heap, chain, key))], ok |-> TRUE]
    ELSE [pair |-> NoPair, ok |-> FALSE]

\* NewHash: an empty map
NewHash == [k \in {} |-> <<>>]

\* h.Pairs[hashed]: a missing key reads as the nil chain
ChainAt(P, hashed) == IF hashed \in DOMAIN P THEN P[hashed] ELSE <<>>

\* h.Pairs[hashed] = chain
PutChain(P, hashed, chain) ==
    [k \in DOMAIN P \cup {hashed} |-> IF k = hashed THEN chain ELSE P[k]]

\* An Add that drops a key it cannot hash without saying so.
AddErrorSilent(heap, key) == NoError

\* Hash.Add, the error it returns
AddError(heap, key) ==
    IF heap[key].Type \in Hashable
    THEN NoError
    ELSE "unusable as hash key: " \o heap[key].Type

\* An Add without the loop that looks for the key in the chain.
AddPairsAppendOnly(heap, P, key, value) ==
    IF heap[key].Type \notin Hashable
    THEN P
    ELSE PutChain(P, HashKeyOf(heap[key]),
                  Append(ChainAt(P, HashKeyOf(heap[key])), [Key |-> key, Value |-> value]))

\* Hash.Add, the map it leaves
AddPairs(heap, P, key, value) ==
    IF heap[key].Type \notin Hashable
    THEN P
    ELSE LET hashed == HashKeyOf(heap[key])
             chain == ChainAt(P, hashed)
             newPair == [Key |-> key, Value |-> value]
             hits == Matches(heap, chain, key)
         IN  IF hits # {}
             THEN PutChain(P, hashed, [chain EXCEPT ![Lowest(hits)] = newPair])
             ELSE PutChain(P, hashed, Append(chain, newPair))

\* Hash.Add, the heap it leaves: the key's digest is cached
AddHeap(heap, key) ==
    IF heap[key].Type \in Hashable
    THEN [heap EXCEPT ![key] = Cached(heap[key])]
    ELSE heap

\* What identifies a key whatever object carries it.
KeyOf(o) == [Type |-> o.Type, Value |-> o.Value]

(***************************************************************************)
(* The operations of Spec.  ret is the last call and its result.           *)
(***************************************************************************)
UnchangedEnv == UNCHANGED <<envs, pc, env, input, program, errors, out, evals, sessions>>

NewInteger(value) ==
    /\ Len(objs) < MaxObjs
    /\ objs' = Append(objs, MkObject(INTEGER_OBJ, value))
    /\ ret' = [op |-> "NewInteger", ref |-> Len(objs) + 1]
    /\ UNCHANGED <<Pairs, assigned>>
    /\ UnchangedEnv

NewString(value) ==
    /\ Len(objs) < MaxObjs
    /\ objs' = Append(objs, MkObject(STRING_OBJ, value))
    /\ ret' = [op |-> "NewString", ref |-> Len(objs) + 1]
    /\ UNCHANGED <<Pairs, assigned>>
    /\ UnchangedEnv

\* &Null{}, &Array{}, &Error{} ...: an object of a variant without HashKey
NewOther(type) ==
    /\ Len(objs) < MaxObjs
    /\ objs' = Append(objs, MkObject(type, <<>>))
    /\ ret' = [op |-> "NewOther", ref |-> Len(objs) + 1]
    /\ UNCHANGED <<Pairs, assigned>>
    /\ UnchangedEnv

\* A GetBooleanObject with its test inverted.
GetBooleanObjectInverted(b) == IF b THEN FalseRef ELSE TrueRef

GetBooleanObjectRef(b) == IF b THEN TrueRef ELSE FalseRef

GetBooleanObject(b) ==
    /\ ret' = [op |-> "GetBooleanObject", input |-> b, ref |-> GetBooleanObjectRef(b)]
    /\ UNCHANGED <<objs, Pairs, assigned>>
    /\ UnchangedEnv

\* o.HashKey() on an Integer, a Boolean or a String
HashKey(r) ==
    /\ objs[r].Type \in Hashable
    /\ objs' = [objs EXCEPT ![r] = Cached(objs[r])]
    /\ ret' = [op |-> "HashKey", ref |-> r, key |-> HashKeyOf(objs[r])]
    /\ UNCHANGED <<Pairs, assigned>>
    /\ UnchangedEnv

Add(key, value) ==
    /\ Pairs' = AddPairs(objs, Pairs, key, value)
    /\ objs' = AddHeap(objs, key)
    /\ assigned' =
           IF AddError(objs, key) = NoError
           THEN [k \in DOMAIN assigned \cup {KeyOf(objs[key])} |->
                    IF k = KeyOf(objs[key]) THEN value ELSE assigned[k]]
           ELSE assigned
    /\ ret' = [op |-> "Add", key |-> key, value |-> value, err |-> AddError(objs, key)]
    /\ UnchangedEnv

\* chain.FindPair(key) on a chain of the Hash
CallFindPair(hashed, key) ==
    /\ ret' = [op |-> "FindPair", key |-> key,
               pair |-> FindPair(objs, Pairs[hashed], key).pair,
               ok |-> FindPair(objs, Pairs[hashed], key).ok]
    /\ UNCHANGED <<objs, Pairs, assigned>>
    /\ UnchangedEnv

Init ==
    /\ objs = <<MkObject(BOOLEAN_OBJ, TRUE), MkObject(BOOLEAN_OBJ, FALSE)>>
    /\ Pairs = NewHash
    /\ assigned = [k \in {} |-> 0]
    /\ envs = <<>>
    /\ pc = "idle"
    /\ env = 0
    /\ input = 0
    /\ program = NoProgram
    /\ errors = <<>>
    /\ out = <<>>
    /\ evals = <<>>
    /\ sessions = 0
    /\ ret = [op |-> "init"]

Next ==
    \/ \E v \in KeyIntValues : NewInteger(v)
    \/ \E v \in StrValues : NewString(v)
    \/ \E key \in Refs, value \in ValueRefs : Add(key, value)
    \/ \E hashed \in DOMAIN Pairs, key \in Refs : CallFindPair(hashed, key)

Spec == Init /\ [][Next]_vars

(***************************************************************************)
(* UnhashableSpec: the Hash and keys of the variants without HashKey.      *)
(***************************************************************************)
UnhashableNext ==
    \/ \E t \in NonHashable : NewOther(t)
    \/ \E key \in Refs, value \in ValueRefs : Add(key, value)

UnhashableSpec == Init /\ [][UnhashableNext]_vars

(***************************************************************************)
(* KeySpec: objects and their HashKey methods alone.                       *)
(***************************************************************************)
KeyNext ==
    \/ \E v \in IntValues : NewInteger(v)
    \/ \E v \in StrValues : NewString(v)
    \/ \E b \in BOOLEAN : GetBooleanObject(b)
    \/ \E r \in Refs : HashKey(r)

KeySpec == Init /\ [][KeyNext]_vars

(***************************************************************************)
(* EnvSpec: environments.  envs is the sequence of the environments        *)
(* created so far, an environment is [store, outer], outer = 0 being nil.  *)
(***************************************************************************)
\* The identifiers bound.
Names == {"x"}

\* make(map[string]Object)
EmptyStore == [n \in {} |-> 0]

\* e.store[name] = val
PutStore(store, name, val) ==
    [n \in DOMAIN store \cup {name} |-> IF n = name THEN val ELSE store[n]]

\* The heap after NewEnvironment
NewEnvironmentIn(E) == Append(E, [store |-> EmptyStore, outer |-> 0])

\* The heap after NewClosedEnvironment(outer)
NewClosedEnvironmentIn(E, outer) ==
    [NewEnvironmentIn(E) EXCEPT ![Len(E) + 1].outer = outer]

\* A lookup in which the enclosing scopes come first.
RECURSIVE GetOuterFirst(_, _, _)
GetOuterFirst(E, e, name) ==
    IF E[e].outer # 0 /\ GetOuterFirst(E, E[e].outer, name).ok
    THEN GetOuterFirst(E, E[e].outer, name)
    ELSE IF name \in DOMAIN E[e].store
         THEN [obj |-> E[e].store[name], ok |-> TRUE]
         ELSE [obj |-> 0, ok |-> FALSE]

\* Environment.Get
RECURSIVE Get(_, _, _)
Get(E, e, name) ==
    IF name \in DOMAIN E[e].store
    THEN [obj |-> E[e].store[name], ok |-> TRUE]
    ELSE IF E[e].outer # 0
         THEN Get(E, E[e].outer, name)
         ELSE [obj |-> 0, ok |-> FALSE]

\* A Set that assigns to the scope that already binds the name.
RECURSIVE SetInBinder(_, _, _, _)
SetInBinder(E, e, name, val) ==
    IF name \notin DOMAIN E[e].store /\ E[e].outer # 0 /\ Get(E, E[e].outer, name).ok
    THEN SetInBinder(E, E[e].outer, name, val)
    ELSE [E EXCEPT ![e].store = PutStore(E[e].store, name, val)]

\* The heap after Environment.Set
SetIn(E, e, name, val) == [E EXCEPT ![e].store = PutStore(E[e].store, name, val)]

UnchangedRepl ==
    UNCHANGED <<objs, Pairs, assigned, pc, env, input, program, errors, out, evals, sessions>>

NewEnvironment ==
    /\ Len(envs) < MaxEnvs
    /\ envs' = NewEnvironmentIn(envs)
    /\ ret' = [op |-> "NewEnvironment", env |-> Len(envs) + 1]
    /\ UnchangedRepl

NewClosedEnvironment(outer) ==
    /\ Len(envs) < MaxEnvs
    /\ envs' = NewClosedEnvironmentIn(envs, outer)
    /\ ret' = [op |-> "NewClosedEnvironment", env |-> Len(envs) + 1, outer |-> outer]
    /\ UnchangedRepl

Set(e, name, val) ==
    /\ envs' = SetIn(envs, e, name, val)
    /\ ret' = [op |-> "Set", env |-> e, name |-> name, val |-> val]
    /\ UnchangedRepl

GetCall(e, name) ==
    /\ ret' = [op |-> "Get", env |-> e, name |-> name,
               obj |-> Get(envs, e, name).obj, ok |-> Get(envs, e, name).ok]
    /\ UNCHANGED envs
    /\ UnchangedRepl

EnvNext ==
    \/ NewEnvironment
    \/ \E outer \in 1..Len(envs) : NewClosedEnvironment(outer)
    \/ \E e \in 1..Len(envs), name \in Names, val \in ValueRefs : Set(e, name, val)
    \/ \E e \in 1..Len(envs), name \in Names : GetCall(e, name)

EnvSpec == Init /\ [][EnvNext]_vars

(***************************************************************************)
(* ReplSpec: repl.Start.  pc is the place in Start ("idle" outside of it), *)
(* env the session's environment, input the number of lines the reader     *)
(* still holds, out what was written, evals the environments the evaluator *)
(* was called with in this session.                                        *)
(***************************************************************************)
PROMPT == ">> "

\* The banner, standing for its text.
MONKEY_FACE == "MONKEY_FACE"

\* The lines read: their text, and what the parser and the evaluator, which
\* are described in the specification only, make of them.
Lines ==
    {[text |-> "let x = true;", errors |-> <<>>,
      stmt |-> [kind |-> "let", name |-> "x", val |-> TrueRef]],
     [text |-> "let x = false;", errors |-> <<>>,
      stmt |-> [kind |-> "let", name |-> "x", val |-> FalseRef]],
     [text |-> "x", errors |-> <<>>,
      stmt |-> [kind |-> "ident", name |-> "x", val |-> 0]],
     [text |-> "let x true",
      errors |-> <<"expected next token to be =, got TRUE instead">>,
      stmt |-> [kind |-> "let", name |-> "x", val |-> TrueRef]],
     [text |-> "let = 5; let x 10;",
      errors |-> <<"expected next token to be IDENT, got = instead",
                   "expected next token to be =, got INT instead">>,
      stmt |-> [kind |-> "let", name |-> "x", val |-> FalseRef]]}

\* p.ParseProgram()
ParseProgram(line) == line.stmt

\* p.Errors()
Errors(line) == line.errors

\* (*Boolean).Inspect
Inspect(o) == IF o.Value THEN "true" ELSE "false"

\* evaluator.Eval(program, env), the environments it leaves
EvalEnvs(E, e, stmt) ==
    IF stmt.kind = "let" THEN SetIn(E, e, stmt.name, stmt.val) ELSE E

\* evaluator.Eval(program, env), what it returns: nil, or an object by its
\* Inspect text
EvalResult(E, e, stmt) ==
    IF stmt.kind = "let"
    THEN [nil |-> TRUE, inspect |-> ""]
    ELSE IF Get(E, e, stmt.name).ok
         THEN [nil |-> FALSE, inspect |-> Inspect(objs[Get(E, e, stmt.name).obj])]
         ELSE [nil |-> FALSE, inspect |-> "ERROR: identifier not found: " \o stmt.name]

RECURSIVE ErrorLines(_, _)
ErrorLines(errs, i) ==
    IF i > Len(errs)
    THEN <<>>
    ELSE <<"\t" \o errs[i] \o "\n">> \o ErrorLines(errs, i + 1)

\* printParserErrors: what it writes
printParserErrors(errs) ==
    <<MONKEY_FACE, "Whoops! We ran into some monkey business here!\n", " parser errors:\n">>
        \o ErrorLines(errs, 1)

UnchangedObjects == UNCHANGED <<objs, Pairs, assigned>>

\* Start, up to the loop: the scanner and the environment are made.
StartCall ==
    /\ pc = "idle"
    /\ sessions < MaxSessions
    /\ sessions' = sessions + 1
    /\ \E n \in 0..MaxInputs : input' = n
    /\ envs' = NewEnvironmentIn(envs)
    /\ env' = Len(envs) + 1
    /\ out' = <<>>
    /\ evals' = <<>>
    /\ program' = NoProgram
    /\ errors' = <<>>
    /\ pc' = "prompt"
    /\ ret' = [op |-> "Start"]
    /\ UnchangedObjects

\* The head of the loop: the prompt, and the end of the input ends Start.
PromptEnd ==
    /\ pc = "prompt"
    /\ input = 0
    /\ out' = Append(out, PROMPT)
    /\ pc' = "idle"
    /\ ret' = [op |-> "return"]
    /\ UNCHANGED <<envs, env, input, program, errors, evals, sessions>>
    /\ UnchangedObjects

\* The head of the loop: the prompt, a line is read and parsed.
PromptParse(line) ==
    /\ pc = "prompt"
    /\ input > 0
    /\ out' = Append(out, PROMPT)
    /\ input' = input - 1
    /\ program' = ParseProgram(line)
    /\ errors' = Errors(line)
    /\ pc' = "parsed"
    /\ ret' = [op |-> "parse"]
    /\ UNCHANGED <<envs, env, evals, sessions>>
    /\ UnchangedObjects

\* A loop that reports the errors and then evaluates all the same.
ReportThenEvaluate ==
    /\ pc = "parsed"
    /\ Len(errors) # 0
    /\ envs' = EvalEnvs(envs, env, program)
    /\ evals' = Append(evals, env)
    /\ out' = out \o printParserErrors(errors)
    /\ pc' = "prompt"
    /\ ret' = [op |-> "report"]
    /\ UNCHANGED <<env, input, program, errors, sessions>>
    /\ UnchangedObjects

\* The parser reported errors: they are printed and the loop continues.
Report ==
    /\ pc = "parsed"
    /\ Len(errors) # 0
    /\ out' = out \o printParserErrors(errors)
    /\ pc' = "prompt"
    /\ ret' = [op |-> "report"]
    /\ UNCHANGED <<envs, env, input, program, errors, evals, sessions>>
    /\ UnchangedObjects

\* A loop that makes its environment anew for every evaluation.
EvaluateInFresh ==
    /\ pc = "parsed"
    /\ Len(errors) = 0
    /\ envs' = EvalEnvs(NewEnvironmentIn(envs), Len(envs) + 1, program)
    /\ env' = Len(envs) + 1
    /\ evals' = Append(evals, Len(envs) + 1)
    /\ out' = IF EvalResult(NewEnvironmentIn(envs), Len(envs) + 1, program).nil
              THEN out
              ELSE out \o <<EvalResult(NewEnvironmentIn(envs), Len(envs) + 1, program).inspect,
                            "\n">>
    /\ pc' = "prompt"
    /\ ret' = [op |-> "eval"]
    /\ UNCHANGED <<input, program, errors, sessions>>
    /\ UnchangedObjects

\* No errors: the program is evaluated in env and the result is printed.
Evaluate ==
    /\ pc = "parsed"
    /\ Len(errors) = 0
    /\ envs' = EvalEnvs(envs, env, program)
    /\ evals' = Append(evals, env)
    /\ out' = IF EvalResult(envs, env, program).nil
              THEN out
              ELSE out \o <<EvalResult(envs, env, program).inspect, "\n">>
    /\ pc' = "prompt"
    /\ ret' = [op |-> "eval"]
    /\ UNCHANGED <<env, input, program, errors, sessions>>
    /\ UnchangedObjects

ReplNext ==
    \/ StartCall
    \/ PromptEnd
    \/ \E line \in Lines : PromptParse(line)
    \/ Report
    \/ Evaluate

ReplSpec == Init /\ [][ReplNext]_vars

(***************************************************************************)
(* Properties of the Hash container, under Spec and UnhashableSpec.        *)
(***************************************************************************)
SameKey(a, b) == a.Type = b.Type /\ a.Value = b.Value

IsAddOf(r, hashable) ==
    /\ r.op = "Add"
    /\ (objs[r.key].Type \in Hashable) = hashable

\* C1: Add with a hashable key replaces, at its position, the value of the
\* pair of the key's chain whose key is object-equal, the chain keeping its
\* length; without such a pair it appends the new pair to the chain, which
\* grows by exactly one.
C1_AddReplacesOrAppends ==
    [][IsAddOf(ret', TRUE) =>
         LET key == ret'.key
             hashed == HashKeyOf(objs'[key])
             old == ChainAt(Pairs, hashed)
             new == ChainAt(Pairs', hashed)
             same == {i \in 1..Len(old) : SameKey(objs[old[i].Key], objs[key])}
         IN  /\ ret'.err = NoError
             /\ IF same # {}
                THEN /\ Len(new) = Len(old)
                     /\ \A i \in 1..Len(old) :
                           IF i \in same
                           THEN new[i].Value = ret'.value
                           ELSE new[i] = old[i]
                ELSE /\ Len(new) = Len(old) + 1
                     /\ new = Append(old, [Key |-> key, Value |-> ret'.value])]_vars

\* C1 witness: the last call is an Add of the key at the head of a chain of
\* two; the key was there before the second one came, so this Add replaced.
C1_Witness ==
    /\ ret.op = "Add"
    /\ ret.err = NoError
    /\ \E hashed \in DOMAIN Pairs :
          /\ Len(Pairs[hashed]) = 2
          /\ Pairs[hashed][1] = [Key |-> ret.key, Value |-> ret.value]

\* The 64-bit digest of an Integer, Boolean or String, from its value alone.
DigestOf(o) ==
    CASE o.Type = INTEGER_OBJ -> U64OfInt(o.Value)
      [] o.Type = BOOLEAN_OBJ -> BytesOfNat(IF o.Value THEN 1 ELSE 0, 8)
      [] o.Type = STRING_OBJ -> Fnv64a(o.Value)

Colliding(a, b) ==
    /\ objs[a].Type \in Hashable
    /\ objs[a].Type = objs[b].Type
    /\ ~SameKey(objs[a], objs[b])
    /\ DigestOf(objs[a]) = DigestOf(objs[b])
    /\ KeyOf(objs[a]) \in DOMAIN assigned
    /\ KeyOf(objs[b]) \in DOMAIN assigned

\* C2: two distinct keys of one variant with the same digest, both added, are
\* both kept in one chain, and FindPair returns for each its own value.
C2_CollidingKeysBothKept ==
    \A a, b \in Refs :
        Colliding(a, b) =>
            LET chain == ChainAt(Pairs, HashKeyOf(objs[a]))
            IN  /\ HashKeyOf(objs[a]) = HashKeyOf(objs[b])
                /\ Len(chain) >= 2
                /\ FindPair(objs, chain, a).ok
                /\ FindPair(objs, chain, b).ok
                /\ FindPair(objs, chain, a).pair.Value = assigned[KeyOf(objs[a])]
                /\ FindPair(objs, chain, b).pair.Value = assigned[KeyOf(objs[b])]

\* C2 witness: two colliding strings are in the Hash with different values.
C2_Witness ==
    \E a, b \in Refs :
        /\ Colliding(a, b)
        /\ assigned[KeyOf(objs[a])] # assigned[KeyOf(objs[b])]

\* C3: looking up a key that was added finds the value of its latest Add;
\* looking up a hashable key that was never added finds nothing.
C3_LookupRoundTrip ==
    \A k \in Refs :
        objs[k].Type \in Hashable =>
            LET found == FindPair(objs, ChainAt(Pairs, HashKeyOf(objs[k])), k)
            IN  IF KeyOf(objs[k]) \in DOMAIN assigned
                THEN found.ok /\ found.pair.Value = assigned[KeyOf(objs[k])]
                ELSE ~found.ok

\* C3 witness: a key was added through two objects (both carry a cached
\* digest) and holds the later value, while another hashable key was never
\* added.
C3_Witness ==
    /\ \E k1, k2 \in Refs :
          /\ k1 # k2
          /\ SameKey(objs[k1], objs[k2])
          /\ objs[k1].hashKey # NoHashKey
          /\ objs[k2].hashKey # NoHashKey
          /\ ret.op = "Add"
          /\ ret.key = k2
          /\ assigned[KeyOf(objs[k1])] = ret.value
    /\ \E k \in Refs :
          /\ objs[k].Type \in Hashable
          /\ KeyOf(objs[k]) \notin DOMAIN assigned

\* C4: Add with a key that is no Integer, Boolean or String returns an error
\* naming the key's type and leaves the map as it was.
C4_UnhashableKeyRejected ==
    [][IsAddOf(ret', FALSE) =>
         /\ ret'.err # NoError
         /\ ret'.err = "unusable as hash key: " \o objs[ret'.key].Type
         /\ Pairs' = Pairs
         /\ objs' = objs]_vars

\* C4 witness: an Add with an unhashable key was refused on a Hash that
\* holds pairs.
C4_Witness ==
    /\ ret.op = "Add"
    /\ objs[ret.key].Type \in NonHashable
    /\ ret.err # NoError
    /\ DOMAIN Pairs # {}

(***************************************************************************)
(* Properties of the hash keys, under KeySpec.                             *)
(***************************************************************************)
\* C8: Integer, Boolean and String objects of different variants have
\* different hash keys and are not object-equal, whatever their digests;
\* objects of one variant with equal values have equal hash keys, cached or
\* not.
C8_HashKeySeparatesVariants ==
    \A a, b \in Refs :
        (objs[a].Type \in Hashable /\ objs[b].Type \in Hashable) =>
            /\ objs[a].Type # objs[b].Type =>
                  /\ HashKeyOf(objs[a]) # HashKeyOf(objs[b])
                  /\ ~compareObjects(objs[a], objs[b])
            /\ SameKey(objs[a], objs[b]) => HashKeyOf(objs[a]) = HashKeyOf(objs[b])

\* C8 witness: an Integer with a cached digest that equals the digest of a
\* Boolean without a cache, and a second Integer of the same value without a
\* cache.
C8_Witness ==
    \E a, b, c \in Refs :
        /\ objs[a].Type = INTEGER_OBJ
        /\ objs[b].Type = BOOLEAN_OBJ
        /\ objs[a].hashKey # NoHashKey
        /\ objs[b].hashKey = NoHashKey
        /\ objs[a].hashKey.Value = DigestOf(objs[b])
        /\ c # a
        /\ SameKey(objs[a], objs[c])
        /\ objs[c].hashKey = NoHashKey

BooleanRefs == {r \in Refs : objs[r].Type = BOOLEAN_OBJ}

\* C9: GetBooleanObject returns, for true and for false, always the same one
\* of two distinct Boolean instances, there is never a third one, and caching
\* a hash key on them leaves their Value as it was.
C9_BooleanSingletons ==
    /\ Cardinality(BooleanRefs) = 2
    /\ objs[TrueRef].Value = TRUE
    /\ objs[FalseRef].Value = FALSE
    /\ \A r1, r2 \in BooleanRefs : objs[r1].Value = objs[r2].Value => r1 = r2
    /\ ret.op = "GetBooleanObject" =>
          /\ ret.ref \in BooleanRefs
          /\ objs[ret.ref].Value = ret.input

\* C9 witness: GetBooleanObject has returned a singleton that carries a cached
\* hash key, the other singleton carrying one too.
C9_Witness ==
    /\ ret.op = "GetBooleanObject"
    /\ \A r \in BooleanRefs : objs[r].hashKey # NoHashKey

(***************************************************************************)
(* Properties of the environments, under EnvSpec.                          *)
(***************************************************************************)
\* The scopes from e outward, innermost first.
RECURSIVE ScopeChain(_, _)
ScopeChain(E, e) == IF e = 0 THEN <<>> ELSE <<e>> \o ScopeChain(E, E[e].outer)

Binders(E, e, name) ==
    {i \in 1..Len(ScopeChain(E, e)) : name \in DOMAIN E[ScopeChain(E, e)[i]].store}

\* C5: Get returns the binding of the innermost scope of the chain that binds
\* the name, and reports not-found exactly when no scope of the chain binds
\* it.
C5_GetFindsInnermost ==
    ret.op = "Get" =>
        LET chain == ScopeChain(envs, ret.env)
            binders == Binders(envs, ret.env, ret.name)
        IN  IF binders = {}
            THEN ~ret.ok
            ELSE /\ ret.ok
                 /\ ret.obj = envs[chain[Lowest(binders)]].store[ret.name]

\* C5 witness: a Get through a chain of three scopes, the innermost without
\* the name, the two outer ones binding it to different values.
C5_Witness ==
    /\ ret.op = "Get"
    /\ Len(ScopeChain(envs, ret.env)) = 3
    /\ Binders(envs, ret.env, ret.name) = {2, 3}
    /\ LET chain == ScopeChain(envs, ret.env)
       IN  envs[chain[2]].store[ret.name] # envs[chain[3]].store[ret.name]

\* C10: Set changes the store of its own scope alone, so the enclosing and the
\* sibling scopes keep their stores and Get on the enclosing scope answers as
\* before; NewClosedEnvironment returns a scope with an empty store.
C10_SetIsLocal ==
    [][/\ ret'.op = "Set" =>
             /\ Len(envs') = Len(envs)
             /\ \A i \in 1..Len(envs) : i # ret'.env => envs'[i] = envs[i]
             /\ envs'[ret'.env].outer = envs[ret'.env].outer
             /\ ret'.name \in DOMAIN envs'[ret'.env].store
             /\ envs'[ret'.env].store[ret'.name] = ret'.val
             /\ \A n \in DOMAIN envs[ret'.env].store :
                   n # ret'.name => envs'[ret'.env].store[n] = envs[ret'.env].store[n]
             /\ Get(envs', ret'.env, ret'.name) = [obj |-> ret'.val, ok |-> TRUE]
             /\ envs[ret'.env].outer # 0 =>
                   \A n \in Names :
                       Get(envs', envs[ret'.env].outer, n) = Get(envs, envs[ret'.env].outer, n)
       /\ ret'.op = "NewClosedEnvironment" =>
             /\ Len(envs') = Len(envs) + 1
             /\ \A i \in 1..Len(envs) : envs'[i] = envs[i]
             /\ envs'[ret'.env].outer = ret'.outer
             /\ DOMAIN envs'[ret'.env].store = {}]_vars

\* C10 witness: a Set in a child scope of a name that the enclosing scope
\* binds to another value, a sibling scope existing.
C10_Witness ==
    /\ ret.op = "Set"
    /\ envs[ret.env].outer # 0
    /\ Get(envs, envs[ret.env].outer, ret.name).ok
    /\ Get(envs, envs[ret.env].outer, ret.name).obj # ret.val
    /\ \E s \in 1..Len(envs) : s # ret.env /\ envs[s].outer = envs[ret.env].outer

(***************************************************************************)
(* Properties of the read loop, under ReplSpec.                            *)
(***************************************************************************)
RECURSIVE Tabbed(_)
Tabbed(errs) ==
    IF errs = <<>> THEN <<>> ELSE <<"\t" \o Head(errs) \o "\n">> \o Tabbed(Tail(errs))

\* C6: for a unit of input with syntax errors the evaluator is not called:
\* the errors are written in their order, the environments stay as they are
\* and the loop is back at its prompt.
C6_NoEvalOnSyntaxErrors ==
    [][(pc = "parsed" /\ errors # <<>>) =>
          /\ evals' = evals
          /\ envs' = envs
          /\ env' = env
          /\ Len(out') = Len(out) + 3 + Len(errors)
          /\ SubSeq(out', 1, Len(out)) = out
          /\ SubSeq(out', Len(out) + 4, Len(out')) = Tabbed(errors)
          /\ pc' = "prompt"]_vars

\* C6 witness: two errors were reported in a session whose environment binds
\* a name, and the loop is at its prompt with input left.
C6_Witness ==
    /\ pc = "prompt"
    /\ ret.op = "report"
    /\ Len(errors) = 2
    /\ Len(evals) = 1
    /\ DOMAIN envs[env].store # {}
    /\ input > 0

Roots(E) == {i \in 1..Len(E) : E[i].outer = 0}

\* C7: a call of Start makes one fresh empty root environment; until Start
\* returns, the session keeps this environment, no other root is made, every
\* evaluation is given it, and a name it binds stays bound.
C7_OneEnvironmentPerSession ==
    [][/\ (pc = "idle" /\ pc' # "idle") =>
             /\ env' \notin 1..Len(envs)
             /\ Roots(envs') = Roots(envs) \cup {env'}
             /\ DOMAIN envs'[env'].store = {}
             /\ evals' = <<>>
       /\ (pc # "idle" /\ pc' # "idle") =>
             /\ env' = env
             /\ Roots(envs') = Roots(envs)
             /\ \A n \in Names : Get(envs, env, n).ok => Get(envs', env', n).ok
             /\ evals' # evals => evals' = Append(evals, env)]_vars

\* C7 witness: in a second session a name bound by the first input was read
\* by the third, the second having syntax errors.
C7_Witness ==
    /\ sessions = 2
    /\ pc = "prompt"
    /\ Len(evals) = 2
    /\ Len(out) > 6
    /\ out[3] = MONKEY_FACE
    /\ out[Len(out) - 1] \in {"true", "false"}
    /\ DOMAIN envs[1].store # {}

====
